---- MODULE Spec2Model ----
(***************************************************************************)
(* Model of audiogram_streamlitapp.py: a Streamlit script that is run top  *)
(* to bottom once when the page opens and again after every widget         *)
(* interaction.  A state is the set of script variables at the end of a    *)
(* run, together with the file on disk and the widget (session) state.     *)
(*                                                                         *)
(* Numbers: every measurement is held in tenths of its unit (10.0 dB HL is *)
(* 100), so that a mean and its rounding to one decimal are integer        *)
(* arithmetic.  The measurements drawn are multiples of one half, which    *)
(* float64 holds exactly.  A DataFrame is a sequence of rows, each row a   *)
(* record carrying its row label in the field "index".                     *)
(***************************************************************************)
EXTENDS Integers, Sequences, FiniteSets, TLC

\* ---------------------------------------------------------------- bounds
MaxRows == 3

\* ---------------------------------------------------------------- inputs
\* One line of audiogram_df.csv.
CsvRow(pid, cat, ptaR, ptaL, srtR, srtL, sdtR, sdtL, wrsR, wrsL) ==
    [PatientID |-> pid, Category |-> cat,
     PTA_Right |-> ptaR, PTA_Left |-> ptaL,
     SRT_Right |-> srtR, SRT_Left |-> srtL,
     SDT_Right |-> sdtR, SDT_Left |-> sdtL,
     WRS_Right |-> wrsR, WRS_Left |-> wrsL]

\* The lines a file is made of.  P1 and P2 occur on several lines with
\* different readings; 20.0 and 20.5 average to a value that lies exactly
\* between two tenths.
RowPool ==
    { CsvRow("P1", "Mild",     100, 150, 105, 155,  50, 100, 1000, 960),
      CsvRow("P2", "Mild",     200, 125, 210, 130, 150,  95,  920, 885),
      CsvRow("P3", "Severe",   300, 350, 310, 345, 250, 300,  600, 640),
      CsvRow("P4", "Severe",   400, 425, 405, 430, 355, 380,  480, 520),
      CsvRow("P1", "Moderate", 450, 555, 460, 550, 400, 505,  760, 725),
      CsvRow("P2", "Mild",     205, 130, 215, 135, 155, 100,  915, 880) }

\* The files audiogram_df.csv may be: a header and 0..MaxRows lines.
Files == UNION { [1..n -> RowPool] : n \in 0..MaxRows }

\* ---------------------------------------------------------------- pandas
Range(s) == { s[i] : i \in 1..Len(s) }

\* pd.read_csv: the rows of the file, labelled 0, 1, 2, ... (RangeIndex).
ReadCsv(file) == [i \in 1..Len(file) |-> [index |-> i - 1] @@ file[i]]

\* df[name]: one column of a frame.
Column(df, name) == [i \in 1..Len(df) |-> df[i][name]]

\* Slip: the mask of the rows to drop is taken for the mask of the rows to keep.
IsInNegated(col, values) == [i \in 1..Len(col) |-> col[i] \notin values]

\* Series.isin(values): the boolean mask of membership.
IsIn(col, values) == [i \in 1..Len(col) |-> col[i] \in values]

\* Series == value: the boolean mask of equality.
EqMask(col, value) == [i \in 1..Len(col) |-> col[i] = value]

RECURSIVE BoolIndex(_, _)
\* df[mask]: the rows whose mask entry is True, labels kept, order kept.
BoolIndex(df, mask) ==
    IF df = <<>> THEN <<>>
    ELSE (IF Head(mask) THEN <<Head(df)>> ELSE <<>>)
         \o BoolIndex(Tail(df), Tail(mask))

RECURSIVE Unique(_)
\* Series.unique(): the distinct values in order of first appearance.
Unique(col) ==
    IF col = <<>> THEN <<>>
    ELSE LET rest == Unique(SubSeq(col, 1, Len(col) - 1))
             x    == col[Len(col)]
         IN  IF x \in Range(rest) THEN rest ELSE Append(rest, x)

\* Position of a Category label in Python's ordering of str values
\* ("Mild" < "Moderate" < "Severe": 'i' < 'o', 'M' < 'S').
StrOrd == [Mild |-> 1, Moderate |-> 2, Severe |-> 3]

StrLT(a, b) == StrOrd[a] < StrOrd[b]

RECURSIVE SortValues(_)
\* The group keys in ascending order (groupby's default sort=True).
SortValues(keys) ==
    IF keys = <<>> THEN <<>>
    ELSE LET rest == SortValues(Tail(keys))
             x    == Head(keys)
             k    == Cardinality({ i \in 1..Len(rest) : StrLT(rest[i], x) })
         IN  SubSeq(rest, 1, k) \o <<x>> \o SubSeq(rest, k + 1, Len(rest))

RECURSIVE Sum(_)
Sum(vals) == IF vals = <<>> THEN 0 ELSE Head(vals) + Sum(Tail(vals))

\* .mean(): the sum over the count, kept as an exact fraction.
Mean(vals) == [num |-> Sum(vals), den |-> Len(vals)]

\* Slip: the mean is cut to one decimal instead of rounded.
Round1Truncated(q) == q.num \div q.den

\* .round(1): numpy rounds to the nearest tenth, a tie to the even tenth.
\* The fraction is in tenths already, so this is rounding to an integer.
Round1(q) ==
    LET fl  == q.num \div q.den
        rem == q.num % q.den
    IN  IF 2 * rem < q.den THEN fl
        ELSE IF 2 * rem > q.den THEN fl + 1
        ELSE IF fl % 2 = 0 THEN fl ELSE fl + 1

\* Slip: groupby(..., sort=False), the keys in order of first appearance.
GroupKeysUnsorted(df) == Unique(Column(df, "Category"))

\* The keys of groupby("Category").
GroupKeys(df) == SortValues(Unique(Column(df, "Category")))

\* One cell of the summary: a column's rounded mean over a group's rows.
GroupMean(df, key, name) ==
    Round1(Mean(Column(BoolIndex(df, EqMask(Column(df, "Category"), key)),
                       name)))

\* df.groupby("Category")[[...]].mean().round(1).reset_index()
GroupMeans(df) ==
    LET keys == GroupKeys(df)
    IN  [k \in 1..Len(keys) |->
            [index     |-> k - 1,
             Category  |-> keys[k],
             PTA_Right |-> GroupMean(df, keys[k], "PTA_Right"),
             PTA_Left  |-> GroupMean(df, keys[k], "PTA_Left"),
             WRS_Right |-> GroupMean(df, keys[k], "WRS_Right"),
             WRS_Left  |-> GroupMean(df, keys[k], "WRS_Left")]]

\* ---------------------------------------------------------------- widgets
\* A widget's entry in the session: unset until the user touches it.
Unset == [set |-> FALSE]
SetTo(v) == [set |-> TRUE, value |-> v]

\* Slip: an empty choice is taken for "no choice" and replaced by the default.
MultiselectOrDefault(options, default, state) ==
    IF state.set /\ state.value # {} THEN state.value ELSE Range(default)

\* st.sidebar.multiselect(options=..., default=...): the chosen values, the
\* default until the user changes the choice.  Only membership in the result
\* is used, so it is held as a set.
Multiselect(options, default, state) ==
    IF state.set THEN state.value ELSE Range(default)

NoneValue == "None"

\* Slip: st.selectbox(..., index=None), nothing chosen until the user chooses.
SelectboxNoDefault(options, state) ==
    IF state.set THEN state.value ELSE NoneValue

\* st.selectbox(label, options): the chosen option, the first option until
\* the user chooses, None when there is no option.
Selectbox(options, state) ==
    IF state.set THEN state.value
    ELSE IF options = <<>> THEN NoneValue ELSE options[1]

\* ---------------------------------------------------------------- radar
categories ==
    <<"PTA_Right", "PTA_Left", "SRT_Right", "SRT_Left", "SDT_Right", "SDT_Left">>

N == Len(categories)

\* A full turn; the model measures angles in degrees.
FullTurn == 360

\* np.linspace(start, stop, num, endpoint=False).tolist()
Linspace(start, stop, num) ==
    [i \in 1..num |-> start + ((i - 1) * (stop - start)) \div num]

\* Slip: the loop is closed with the last entry, v += v[-1:].
CloseLoopLast(v) == v \o SubSeq(v, Len(v), Len(v))

\* v += v[:1]
CloseLoop(v) == v \o SubSeq(v, 1, 1)

\* audiogram_df[audiogram_df["PatientID"] == patient_id]
Lookup(df, pid) == BoolIndex(df, EqMask(Column(df, "PatientID"), pid))

\* Slip: .iloc[-1], the last matching row.
IlocLast(rows) == rows[Len(rows)]

\* .iloc[0]
Iloc0(rows) == rows[1]

PtaPlot(p) == CloseLoop(<<p.PTA_Right, p.PTA_Left, 0, 0, 0, 0>>)
SrtPlot(p) == CloseLoop(<<0, 0, p.SRT_Right, p.SRT_Left, 0, 0>>)
SdtPlot(p) == CloseLoop(<<0, 0, 0, 0, p.SDT_Right, p.SDT_Left>>)
Angles == CloseLoop(Linspace(0, FullTurn, N))

\* ---------------------------------------------------------------- script
\* Slip: the mask is read one position late, row i kept when the Category of
\* row i+1 is selected.
FilterShifted(df, cat) ==
    LET col == Column(df, "Category")
    IN  BoolIndex(df, [i \in 1..Len(df) |-> i < Len(df) /\ col[i + 1] \in cat])

\* audiogram_df[audiogram_df["Category"].isin(category)]
Filter(df, cat) == BoolIndex(df, IsIn(Column(df, "Category"), cat))

\* The script below the load, against the session: the value of every script
\* variable when the run ends.  A run that raises at .iloc[0] leaves the
\* variables after it unassigned (empty here).
Render(df, sess) ==
    LET catopts  == Unique(Column(df, "Category"))
        cat      == Multiselect(catopts, catopts, sess.category)
        filtered == Filter(df, cat)
        summary  == GroupMeans(filtered)
        pidopts  == Unique(Column(df, "PatientID"))
        pid      == Selectbox(pidopts, sess.patient)
        matches  == Lookup(df, pid)
        ok       == matches # <<>>
        pdata    == IF ok THEN Iloc0(matches) ELSE <<>>
    IN  [audiogram_df     |-> df,
         category_options |-> catopts,
         category         |-> cat,
         filtered_df      |-> filtered,
         summary_df       |-> summary,
         patient_options  |-> pidopts,
         patient_id       |-> pid,
         error            |-> IF ok THEN "none" ELSE "IndexError",
         patient_data     |-> pdata,
         pta_plot         |-> IF ok THEN PtaPlot(pdata) ELSE <<>>,
         srt_plot         |-> IF ok THEN SrtPlot(pdata) ELSE <<>>,
         sdt_plot         |-> IF ok THEN SdtPlot(pdata) ELSE <<>>,
         angles           |-> IF ok THEN Angles ELSE <<>>]

\* Slip: the filter result is bound to the name of the loaded frame,
\* audiogram_df = audiogram_df[...].
ScriptFilterInPlace(file, sess) ==
    LET r == Render(ReadCsv(file), sess)
    IN  [r EXCEPT !.audiogram_df = r.filtered_df]

\* One run of the script: the file is read, then everything below it runs.
Script(file, sess) == Render(ReadCsv(file), sess)

\* ---------------------------------------------------------------- state
VARIABLES csv_file, session,
          audiogram_df, category_options, category, filtered_df, summary_df,
          patient_options, patient_id, error, patient_data,
          pta_plot, srt_plot, sdt_plot, angles

vars == <<csv_file, session,
          audiogram_df, category_options, category, filtered_df, summary_df,
          patient_options, patient_id, error, patient_data,
          pta_plot, srt_plot, sdt_plot, angles>>

\* The page is opened: no widget has been touched, the script runs once.
Init ==
    /\ csv_file \in Files
    /\ session = [category |-> Unset, patient |-> Unset]
    /\ LET r == Script(csv_file, session)
       IN  /\ audiogram_df = r.audiogram_df
           /\ category_options = r.category_options
           /\ category = r.category
           /\ filtered_df = r.filtered_df
           /\ summary_df = r.summary_df
           /\ patient_options = r.patient_options
           /\ patient_id = r.patient_id
           /\ error = r.error
           /\ patient_data = r.patient_data
           /\ pta_plot = r.pta_plot
           /\ srt_plot = r.srt_plot
           /\ sdt_plot = r.sdt_plot
           /\ angles = r.angles

\* The script is run again with the session as the interaction left it.
Rerun(sess) ==
    /\ session' = sess
    /\ UNCHANGED csv_file
    /\ LET r == Script(csv_file, sess)
       IN  /\ audiogram_df' = r.audiogram_df
           /\ category_options' = r.category_options
           /\ category' = r.category
           /\ filtered_df' = r.filtered_df
           /\ summary_df' = r.summary_df
           /\ patient_options' = r.patient_options
           /\ patient_id' = r.patient_id
           /\ error' = r.error
           /\ patient_data' = r.patient_data
           /\ pta_plot' = r.pta_plot
           /\ srt_plot' = r.srt_plot
           /\ sdt_plot' = r.sdt_plot
           /\ angles' = r.angles

\* The user ticks or unticks one Category in the sidebar multiselect.
ToggleCategory(c) ==
    /\ c \in Range(category_options)
    /\ Rerun([session EXCEPT !.category =
                 SetTo(IF c \in category THEN category \ {c}
                                         ELSE category \cup {c})])

\* The user picks another patient in the selectbox.
SelectPatient(p) ==
    /\ p \in Range(patient_options)
    /\ p # patient_id
    /\ Rerun([session EXCEPT !.patient = SetTo(p)])

Next ==
    \/ \E c \in { r.Category : r \in RowPool } : ToggleCategory(c)
    \/ \E p \in { r.PatientID : r \in RowPool } : SelectPatient(p)

Spec == Init /\ [][Next]_vars

\* ---------------------------------------------------------------- properties
Abs(x) == IF x < 0 THEN 0 - x ELSE x

\* The positions of the loaded rows whose Category is selected.
Selected == { i \in 1..Len(audiogram_df) : audiogram_df[i].Category \in category }

\* The positions of the filtered rows that belong to group c.
Members(c) == { i \in 1..Len(filtered_df) : filtered_df[i].Category = c }

RECURSIVE Total(_, _)
\* The total of column name over the filtered rows at the positions in idx.
Total(idx, name) ==
    IF idx = {} THEN 0
    ELSE LET i == CHOOSE j \in idx : TRUE
         IN  filtered_df[i][name] + Total(idx \ {i}, name)

Metrics == {"PTA_Right", "PTA_Left", "WRS_Right", "WRS_Left"}

\* The user has changed the Category choice at least once.
FilterTouched == session.category.set

\* C1: filtered_df holds exactly the loaded rows whose Category is selected:
\* every such row is there, no other row is, none is there twice, and the
\* rows follow one another as they do in audiogram_df.
C1_FilterExact ==
    /\ Len(filtered_df) = Cardinality(Selected)
    /\ \A i \in Selected : \E k \in 1..Len(filtered_df) :
           filtered_df[k] = audiogram_df[i]
    /\ \A k \in 1..Len(filtered_df) : \E i \in Selected :
           filtered_df[k] = audiogram_df[i]
    /\ \A k, l \in 1..Len(filtered_df) :
           k < l => filtered_df[k].index < filtered_df[l].index

\* A changed filter that drops a row lying between two rows it keeps.
C1_Witness ==
    /\ FilterTouched
    /\ Len(filtered_df) = 2
    /\ filtered_df[2].index - filtered_df[1].index = 2

\* The Category choice is empty.
EmptyChoice ==
    \/ category = {}
    \/ FilterTouched /\ session.category.value = {}

\* C2: with an empty Category choice the filtered frame and the summary
\* have no rows, and the run of a non-empty file ends without an error.
C2_EmptySelection ==
    EmptyChoice =>
        /\ filtered_df = <<>>
        /\ summary_df = <<>>
        /\ audiogram_df # <<>> => error = "none"

\* Every Category of a file of several rows has been unticked.
C2_Witness ==
    /\ FilterTouched
    /\ session.category.value = {}
    /\ Len(audiogram_df) > 1
    /\ filtered_df = <<>>
    /\ summary_df = <<>>
    /\ error = "none"

\* C3: the summary has one row per Category of the filtered rows, in
\* ascending order of Category, and each of its four cells is a tenth
\* nearest to the exact mean of the column over the rows of that Category
\* (no further from it than half a tenth).
C3_GroupMeans ==
    LET cats == { filtered_df[i].Category : i \in 1..Len(filtered_df) }
    IN  /\ Len(summary_df) = Cardinality(cats)
        /\ { summary_df[k].Category : k \in 1..Len(summary_df) } = cats
        /\ \A k, l \in 1..Len(summary_df) :
               k < l => StrLT(summary_df[k].Category, summary_df[l].Category)
        /\ \A k \in 1..Len(summary_df) : \A name \in Metrics :
               LET idx == Members(summary_df[k].Category)
                   n   == Cardinality(idx)
               IN  2 * Abs(Total(idx, name) - summary_df[k][name] * n) <= n

\* Two groups met in descending order of Category, one of them with a mean
\* that is not a whole number of tenths.
C3_Witness ==
    /\ Len(summary_df) = 2
    /\ StrLT(filtered_df[2].Category, filtered_df[1].Category)
    /\ \E k \in 1..Len(summary_df) :
           LET idx == Members(summary_df[k].Category)
           IN  Total(idx, "PTA_Right") % Cardinality(idx) # 0

\* C4: when the file has a row, the chosen PatientID is one of the options
\* of the selectbox, the options are the PatientIDs of the frame the lookup
\* searches, a row of that frame matches, and the run ends without an error.
C4_LookupNeverMisses ==
    audiogram_df # <<>> =>
        /\ patient_id \in Range(patient_options)
        /\ Range(patient_options) =
               { audiogram_df[i].PatientID : i \in 1..Len(audiogram_df) }
        /\ \E i \in 1..Len(audiogram_df) :
               audiogram_df[i].PatientID = patient_id
        /\ error = "none"
        /\ patient_data.PatientID = patient_id

\* A patient picked by the user after the filter was changed.
C4_Witness ==
    /\ FilterTouched
    /\ session.patient.set
    /\ patient_id # patient_options[1]
    /\ error = "none"
    /\ patient_data.PatientID = patient_id

\* C5: the charted patient has a row in the filtered frame.
C5_PatientInFiltered ==
    error = "none" =>
        \E k \in 1..Len(filtered_df) : filtered_df[k].PatientID = patient_id

\* C6: the three plotted vectors and the angle list have 7 entries each,
\* the last equal to the first.
C6_RadarClosure ==
    error = "none" =>
        \A v \in {pta_plot, srt_plot, sdt_plot, angles} :
            Len(v) = 7 /\ v[1] = v[7]

\* A chart drawn for a patient the user picked.
C6_Witness ==
    /\ error = "none"
    /\ session.patient.set
    /\ pta_plot[1] # pta_plot[6]
    /\ Len(angles) = 7

\* The first row of the loaded frame with the chosen PatientID.
IsFirstMatch(i) ==
    /\ audiogram_df[i].PatientID = patient_id
    /\ \A j \in 1..(i - 1) : audiogram_df[j].PatientID # patient_id

\* C7: on the six axes each vector carries the two readings of its metric
\* from the first row with the chosen PatientID, and 0 elsewhere.
C7_ZeroFill ==
    error = "none" =>
        \E i \in 1..Len(audiogram_df) :
            /\ IsFirstMatch(i)
            /\ SubSeq(pta_plot, 1, 6) =
                   <<audiogram_df[i].PTA_Right, audiogram_df[i].PTA_Left,
                     0, 0, 0, 0>>
            /\ SubSeq(srt_plot, 1, 6) =
                   <<0, 0, audiogram_df[i].SRT_Right, audiogram_df[i].SRT_Left,
                     0, 0>>
            /\ SubSeq(sdt_plot, 1, 6) =
                   <<0, 0, 0, 0,
                     audiogram_df[i].SDT_Right, audiogram_df[i].SDT_Left>>

\* The chosen patient has a later row with other readings.
C7_Witness ==
    /\ error = "none"
    /\ session.patient.set
    /\ \E i, j \in 1..Len(audiogram_df) :
           /\ IsFirstMatch(i)
           /\ i < j
           /\ audiogram_df[j].PatientID = patient_id
           /\ audiogram_df[j].PTA_Right # audiogram_df[i].PTA_Right
           /\ pta_plot[1] = audiogram_df[i].PTA_Right

\* C8: with a non-empty choice, filtering the filtered frame again by the
\* same choice returns it unchanged.
C8_FilterIdempotent ==
    category # {} => Filter(filtered_df, category) = filtered_df

\* A non-empty choice that keeps some rows and drops others.
C8_Witness ==
    /\ FilterTouched
    /\ category # {}
    /\ filtered_df # <<>>
    /\ Len(filtered_df) < Len(audiogram_df)
    /\ Filter(filtered_df, category) = filtered_df

\* The file with its lines in the order p.
Reordered(p) == [i \in 1..Len(csv_file) |-> csv_file[p[i]]]

\* C9: the summary computed from the file with its lines in any other order
\* is the summary computed from the file as it is.
C9_ReorderInvariant ==
    \A p \in Permutations(1..Len(csv_file)) :
        GroupMeans(Filter(ReadCsv(Reordered(p)), category)) = summary_df

\* Two groups whose rows are met in descending order of Category, so that
\* some reordering meets them in ascending order.
C9_Witness ==
    /\ Len(summary_df) > 1
    /\ filtered_df[1].Category # summary_df[1].Category
    /\ Cardinality(Permutations(1..Len(csv_file))) > 1

\* C10: no run changes the loaded frame (nor the file it is read from).
C10_UpstreamUnchanged ==
    [][audiogram_df' = audiogram_df /\ csv_file' = csv_file]_vars

\* A run after a filter change that left fewer rows in filtered_df than in
\* audiogram_df, with the chart drawn.
C10_Witness ==
    /\ FilterTouched
    /\ Len(filtered_df) < Len(audiogram_df)
    /\ audiogram_df = ReadCsv(csv_file)
    /\ error = "none"

====
